---- MODULE Spec2Model ----
(***************************************************************************)
(* Timesheet dashboard (serdio-task): the aggregation code of              *)
(* ProjectsSummaryComponent and the per-project series of                  *)
(* ProjectChartComponent.                                                  *)
(*                                                                         *)
(* Numbers.  hoursWorked and monetaryValue are exact non-negative integers *)
(* (whole hours, whole currency units), so sums are exact; the rounding of *)
(* double-precision sums of fractional amounts is not modelled.  The       *)
(* result of a JavaScript division is a reduced fraction [num, den];       *)
(* den = 0 stands for the non-finite results (0/0 = NaN, x/0 = Infinity).  *)
(***************************************************************************)
EXTENDS Integers, Sequences, FiniteSets

VARIABLES
    employees,         \* this.employees
    projects,          \* this.projects
    workData,          \* this.workData
    projectSummaries,  \* ProjectsSummaryComponent.projectSummaries
    overallTotals,     \* ProjectsSummaryComponent.overallTotals
    selectedProject,   \* ProjectChartComponent.selectedProject
    chartData,         \* the value last returned by ProjectChartComponent.getChartData
    chart,             \* this.chart (the live Chart instance, or null)
    chartCanvas,       \* TRUE once the @ViewChild canvas has been resolved
    timers,            \* number of pending setTimeout(createChart, 100) callbacks
    lastCall,          \* name of the method that ran last
    pending,           \* the relations whose promise in loadData's Promise.all is not settled
    yearProjection,    \* YearProjectionComponent.yearProjection
    currentMonth,      \* YearProjectionComponent.currentDate.getMonth()
    returned,          \* the last call of a query method of a component and its result
    liveCharts,        \* number of Chart instances constructed and not destroyed
    grid,              \* EmployeeGridComponent: currentPage, totalPages, displayedEmployees
    theme              \* ThemeService: themeSubject.value, localStorage['theme'], the root's
                       \* 'dark' class, and the values passed to themeSubject.next so far

vars == <<employees, projects, workData, projectSummaries, overallTotals,
          selectedProject, chartData, chart, chartCanvas, timers, lastCall,
          pending, yearProjection, currentMonth, returned, liveCharts, grid, theme>>

----------------------------------------------------------------------------
(* Bounds of the model *)

MaxProjectId == 2
MaxEmployeeId == 2
MaxRows == 2

----------------------------------------------------------------------------
(* Data: the records served by ProjectsService and EmployeeService.  A      *)
(* project's name and status and an employee's name and rate are those the *)
(* services hold for the id (rates in whole currency units), and a row's   *)
(* monetaryValue is hoursWorked times the employee's hourly rate, as in    *)
(* the services' data.                                                     *)

ProjectNames ==
    <<"E-commerce Platform", "Mobile App Development", "Data Analytics Dashboard",
      "API Integration Services", "Cloud Migration Project">>

ProjectStatusOf ==
    <<"In Progress", "Completed", "In Progress", "Planning", "In Progress">>

EmployeeNames ==
    <<"John Doe", "Jane Smith", "Mike Johnson", "Sarah Williams", "David Brown">>

HourlyRates == <<36, 41, 31, 43, 34>>

\* hours of one assignment row
Hours == {1, 2}

ProjectIds == 1..MaxProjectId

EmployeeIds == 1..MaxEmployeeId

Project ==
    {[id |-> i, name |-> ProjectNames[i], status |-> ProjectStatusOf[i]] :
        i \in ProjectIds}

Employee == {[id |-> i, fullName |-> EmployeeNames[i]] : i \in EmployeeIds}

ProjectWorkData ==
    {[projectId |-> p, employeeId |-> e, hoursWorked |-> h,
      monetaryValue |-> h * HourlyRates[e]] :
        p \in ProjectIds, e \in EmployeeIds, h \in Hours}

SeqsUpTo(S, n) == UNION {[1..k -> S] : k \in 0..n}

Range(s) == {s[i] : i \in DOMAIN s}

UniqueIds(s) == \A i, j \in DOMAIN s : i # j => s[i].id # s[j].id

\* project lists as the projects service holds them: ids are unique
ProjectLists == {s \in SeqsUpTo(Project, MaxProjectId) : UniqueIds(s)}

EmployeeLists == {s \in SeqsUpTo(Employee, MaxEmployeeId) : UniqueIds(s)}

WorkDataLists == SeqsUpTo(ProjectWorkData, MaxRows)

----------------------------------------------------------------------------
(* JavaScript numbers *)

RECURSIVE Gcd(_, _)
Gcd(a, b) == IF b = 0 THEN a ELSE Gcd(b, a % b)

\* a / b on non-negative numbers: never throws, 0/0 is NaN, x/0 is Infinity
JsDiv(a, b) ==
    IF b = 0
    THEN [num |-> IF a = 0 THEN 0 ELSE 1, den |-> 0]
    ELSE [num |-> a \div Gcd(a, b), den |-> b \div Gcd(a, b)]

\* the number literal n
JsNum(n) == [num |-> n, den |-> 1]

IsFinite(x) == x.den # 0

----------------------------------------------------------------------------
(* Array helpers *)

\* the left fold ((0 + s[1]) + s[2]) + ... of reduce((sum, x) => sum + x, 0)
RECURSIVE Sum(_)
Sum(s) ==
    IF Len(s) = 0 THEN 0
    ELSE Sum(SubSeq(s, 1, Len(s) - 1)) + s[Len(s)]

\* rows.reduce((sum, data) => sum + data.hoursWorked, 0)
TotalHoursOf(rows) == Sum([i \in 1..Len(rows) |-> rows[i].hoursWorked])

\* rows.reduce((sum, data) => sum + data.monetaryValue, 0)
TotalValueOf(rows) == Sum([i \in 1..Len(rows) |-> rows[i].monetaryValue])

\* rows.map(data => data.employeeId)
EmployeeIdsOf(rows) == [i \in 1..Len(rows) |-> rows[i].employeeId]

----------------------------------------------------------------------------
(* ProjectsSummaryComponent *)

\* this.workData.filter(data => data.projectId === project.id)
ProjectWorkDataOf(wd, projectId) ==
    SelectSeq(wd, LAMBDA data : data.projectId = projectId)

\* new Set(projectWorkData.map(data => data.employeeId)).size
EmployeeCountOf_PerRow(projectWorkData) == Len(projectWorkData)

EmployeeCountOf(projectWorkData) ==
    Cardinality(Range(EmployeeIdsOf(projectWorkData)))

\* employeeCount > 0 ? total / employeeCount : 0
AveragePerEmployee_Unguarded(total, employeeCount) == JsDiv(total, employeeCount)

AveragePerEmployee(total, employeeCount) ==
    IF employeeCount > 0 THEN JsDiv(total, employeeCount) ELSE JsNum(0)

\* the callback of this.projects.map in calculateProjectSummaries
ProjectSummaryOf_AllRows(project, wd) ==
    LET totalHours == TotalHoursOf(wd)
        totalValue == TotalValueOf(wd)
        employeeCount == EmployeeCountOf(wd)
    IN  [projectId |-> project.id,
         projectName |-> project.name,
         projectStatus |-> project.status,
         totalHours |-> totalHours,
         totalValue |-> totalValue,
         employeeCount |-> employeeCount,
         averageHoursPerEmployee |-> AveragePerEmployee(totalHours, employeeCount),
         averageValuePerEmployee |-> AveragePerEmployee(totalValue, employeeCount)]

ProjectSummaryOf(project, wd) ==
    LET projectWorkData == ProjectWorkDataOf(wd, project.id)
        totalHours == TotalHoursOf(projectWorkData)
        totalValue == TotalValueOf(projectWorkData)
        employeeCount == EmployeeCountOf(projectWorkData)
    IN  [projectId |-> project.id,
         projectName |-> project.name,
         projectStatus |-> project.status,
         totalHours |-> totalHours,
         totalValue |-> totalValue,
         employeeCount |-> employeeCount,
         averageHoursPerEmployee |-> AveragePerEmployee(totalHours, employeeCount),
         averageValuePerEmployee |-> AveragePerEmployee(totalValue, employeeCount)]

\* the value calculateProjectSummaries assigns to this.projectSummaries, given
\* the inputs and the previous value of the field
ProjectSummariesOf_SkipUnassigned(ps, wd, old) ==
    LET assigned == SelectSeq(ps, LAMBDA project : Len(ProjectWorkDataOf(wd, project.id)) > 0)
    IN  [i \in 1..Len(assigned) |-> ProjectSummaryOf(assigned[i], wd)]

ProjectSummariesOf_Push(ps, wd, old) ==
    old \o [i \in 1..Len(ps) |-> ProjectSummaryOf(ps[i], wd)]

ProjectSummariesOf(ps, wd, old) ==
    [i \in 1..Len(ps) |-> ProjectSummaryOf(ps[i], wd)]

\* the array of one numeric field of the summaries
SummaryField(summaries, field) == [i \in 1..Len(summaries) |-> summaries[i][field]]

\* the value calculateOverallTotals assigns to this.overallTotals
OverallTotalsOf_HoursAsEmployees(summaries) ==
    [totalHours |-> Sum(SummaryField(summaries, "totalHours")),
     totalValue |-> Sum(SummaryField(summaries, "totalValue")),
     totalEmployees |-> Sum(SummaryField(summaries, "totalHours"))]

OverallTotalsOf_NoAccumulator(summaries) ==
    [totalHours |-> IF Len(summaries) = 0 THEN 0 ELSE summaries[Len(summaries)].totalHours,
     totalValue |-> Sum(SummaryField(summaries, "totalValue")),
     totalEmployees |-> Sum(SummaryField(summaries, "employeeCount"))]

OverallTotalsOf(summaries) ==
    [totalHours |-> Sum(SummaryField(summaries, "totalHours")),
     totalValue |-> Sum(SummaryField(summaries, "totalValue")),
     totalEmployees |-> Sum(SummaryField(summaries, "employeeCount"))]

\* ProjectsSummaryComponent.getChartData
SummaryChartData(summaries) ==
    [labels |-> [i \in 1..Len(summaries) |-> summaries[i].projectName],
     hours |-> [i \in 1..Len(summaries) |-> summaries[i].totalHours],
     values |-> [i \in 1..Len(summaries) |-> summaries[i].totalValue]]

NoChart == [live |-> FALSE]

NoChartData == [none |-> TRUE]

ZeroTotals == [totalHours |-> 0, totalValue |-> 0, totalEmployees |-> 0]

\* the initial value of YearProjectionComponent.yearProjection
ZeroProjection ==
    [totalProjectedHours |-> JsNum(0),
     totalProjectedValue |-> JsNum(0),
     activeProjects |-> 0,
     activeEmployees |-> 0,
     averageHoursPerMonth |-> JsNum(0),
     averageValuePerMonth |-> JsNum(0),
     remainingMonths |-> 0,
     monthlyBreakdown |-> <<>>]

\* no query method has been called
NoResult == [call |-> "none"]

\* the initial values of the pagination fields of EmployeeGridComponent
GridFields == [currentPage |-> 1, totalPages |-> 1, displayedEmployees |-> <<>>]

\* localStorage.getItem for a key that has no item (null)
NoItem == "<no item>"

\* ThemeService's field initialiser, with no item stored, no class on the root
\* and no value passed to themeSubject.next yet
ThemeFields ==
    [themeSubject |-> "light", stored |-> NoItem, rootDark |-> FALSE, emitted |-> <<>>]

\* Promise.all(...).then(callback): the callback runs once no promise is pending
AllSettled_ButOne(p) == Cardinality(p) <= 1

AllSettled(p) == p = {}

Init ==
    /\ employees = <<>>
    /\ projects = <<>>
    /\ workData = <<>>
    /\ projectSummaries = <<>>
    /\ overallTotals = ZeroTotals
    /\ selectedProject = 1
    /\ chartData = NoChartData
    /\ chart = NoChart
    /\ chartCanvas = FALSE
    /\ timers = 0
    /\ lastCall = "constructor"
    /\ pending = {"projects", "workData"}
    /\ yearProjection = ZeroProjection
    /\ currentMonth = 0
    /\ returned = NoResult
    /\ liveCharts = 0
    /\ grid = GridFields
    /\ theme = ThemeFields

\* one of the promises of Promise.all settles: x.toPromise() of an of(...) stream
Settle ==
    /\ lastCall = "constructor"
    /\ \E r \in pending : pending' = pending \ {r}
    /\ UNCHANGED <<employees, projects, workData, projectSummaries, overallTotals,
                   selectedProject, chartData, chart, chartCanvas, timers, lastCall,
                   yearProjection, currentMonth, returned>>
    /\ UNCHANGED <<liveCharts, grid, theme>>

\* ngOnInit -> loadData: the .then callback of Promise.all
SummaryLoadData ==
    /\ lastCall = "constructor"
    /\ AllSettled(pending)
    /\ \E ps \in ProjectLists, wd \in WorkDataLists :
        /\ projects' = ps
        /\ workData' = wd
        /\ projectSummaries' = ProjectSummariesOf(ps, wd, projectSummaries)
        /\ overallTotals' = OverallTotalsOf(projectSummaries')
    /\ timers' = timers + 1
    /\ lastCall' = "loadData"
    /\ UNCHANGED <<employees, selectedProject, chartData, chart, chartCanvas>>
    /\ UNCHANGED <<pending, yearProjection, currentMonth, returned>>
    /\ UNCHANGED <<liveCharts, grid, theme>>

CalculateProjectSummaries ==
    /\ lastCall # "constructor"
    /\ projectSummaries' = ProjectSummariesOf(projects, workData, projectSummaries)
    /\ lastCall' = "calculateProjectSummaries"
    /\ UNCHANGED <<employees, projects, workData, overallTotals, selectedProject,
                   chartData, chart, chartCanvas, timers>>
    /\ UNCHANGED <<pending, yearProjection, currentMonth, returned>>
    /\ UNCHANGED <<liveCharts, grid, theme>>

CalculateOverallTotals ==
    /\ lastCall # "constructor"
    /\ overallTotals' = OverallTotalsOf(projectSummaries)
    /\ lastCall' = "calculateOverallTotals"
    /\ UNCHANGED <<employees, projects, workData, projectSummaries, selectedProject,
                   chartData, chart, chartCanvas, timers>>
    /\ UNCHANGED <<pending, yearProjection, currentMonth, returned>>
    /\ UNCHANGED <<liveCharts, grid, theme>>

\* Angular resolves @ViewChild('projectsChart') when the view is initialised
ViewInit ==
    /\ ~chartCanvas
    /\ chartCanvas' = TRUE
    /\ UNCHANGED <<employees, projects, workData, projectSummaries, overallTotals,
                   selectedProject, chartData, chart, timers, lastCall>>
    /\ UNCHANGED <<pending, yearProjection, currentMonth, returned>>
    /\ UNCHANGED <<liveCharts, grid, theme>>

\* a pending timer fires: ProjectsSummaryComponent.createChart
SummaryCreateChart ==
    /\ timers > 0
    /\ timers' = timers - 1
    /\ chart' = IF chartCanvas
                THEN [live |-> TRUE, data |-> SummaryChartData(projectSummaries)]
                ELSE chart
    /\ liveCharts' = IF chartCanvas
                     THEN (IF chart.live THEN liveCharts - 1 ELSE liveCharts) + 1
                     ELSE liveCharts
    /\ lastCall' = "createChart"
    /\ UNCHANGED <<employees, projects, workData, projectSummaries, overallTotals,
                   selectedProject, chartData, chartCanvas>>
    /\ UNCHANGED <<pending, yearProjection, currentMonth, returned>>
    /\ UNCHANGED <<grid, theme>>

SummaryNext ==
    \/ Settle
    \/ SummaryLoadData
    \/ CalculateProjectSummaries
    \/ CalculateOverallTotals
    \/ ViewInit
    \/ SummaryCreateChart

SpecSummary == Init /\ [][SummaryNext]_vars

----------------------------------------------------------------------------
(* Properties of ProjectsSummaryComponent, checked under SpecSummary *)

\* the positions of the work-data rows of project p
RowsOf(p) == {j \in DOMAIN workData : workData[j].projectId = p}

RECURSIVE HoursOver(_)
HoursOver(J) ==
    IF J = {} THEN 0
    ELSE LET j == CHOOSE k \in J : TRUE
         IN  workData[j].hoursWorked + HoursOver(J \ {j})

RECURSIVE ValueOver(_)
ValueOver(J) ==
    IF J = {} THEN 0
    ELSE LET j == CHOOSE k \in J : TRUE
         IN  workData[j].monetaryValue + ValueOver(J \ {j})

EmployeesOver(J) == {workData[j].employeeId : j \in J}

SummariesComputed == lastCall \in {"loadData", "calculateProjectSummaries"}

\* C1: every input project has a summary whose totalHours and totalValue are
\* the sums of hoursWorked and monetaryValue over exactly the rows whose
\* projectId is that project's id, every such row counted once per occurrence.
C1_TotalsAreSumsOfMatchingRows ==
    \A i \in DOMAIN projects :
        \E k \in DOMAIN projectSummaries :
            /\ projectSummaries[k].projectId = projects[i].id
            /\ projectSummaries[k].totalHours = HoursOver(RowsOf(projects[i].id))
            /\ projectSummaries[k].totalValue = ValueOver(RowsOf(projects[i].id))

\* a project with two rows of the same employee, both added (1 + 2 hours)
C1_Witness ==
    /\ SummariesComputed
    /\ \E k \in DOMAIN projectSummaries :
        /\ Cardinality(RowsOf(projectSummaries[k].projectId)) = 2
        /\ Cardinality(EmployeesOver(RowsOf(projectSummaries[k].projectId))) = 1
        /\ projectSummaries[k].totalHours = 3

\* C2: one summary per input project, in input order, with id, name and
\* status copied from the project at the same index; projects without
\* assignments are included.
C2_OneSummaryPerProjectInOrder ==
    /\ Len(projectSummaries) = Len(projects)
    /\ \A i \in DOMAIN projects :
        /\ projectSummaries[i].projectId = projects[i].id
        /\ projectSummaries[i].projectName = projects[i].name
        /\ projectSummaries[i].projectStatus = projects[i].status

\* two projects listed in descending id order, the first without any row
C2_Witness ==
    /\ SummariesComputed
    /\ Len(projects) = 2
    /\ projects[1].id > projects[2].id
    /\ RowsOf(projects[1].id) = {}
    /\ RowsOf(projects[2].id) # {}
    /\ projectSummaries[1].projectId = projects[1].id

\* C3: employeeCount is the number of distinct employeeIds among the
\* project's rows and never exceeds the number of distinct employeeIds of
\* all rows.
C3_EmployeeCountIsDistinct ==
    \A k \in DOMAIN projectSummaries :
        /\ projectSummaries[k].employeeCount =
               Cardinality(EmployeesOver(RowsOf(projectSummaries[k].projectId)))
        /\ projectSummaries[k].employeeCount
               <= Cardinality(EmployeesOver(DOMAIN workData))

\* an employee with two rows on one project is counted once
C3_Witness ==
    /\ SummariesComputed
    /\ \E k \in DOMAIN projectSummaries :
        /\ Cardinality(RowsOf(projectSummaries[k].projectId)) = 2
        /\ projectSummaries[k].employeeCount = 1

\* x is the finite number total / count
IsQuotient(x, total, count) ==
    /\ x.den # 0
    /\ x.num * count = total * x.den

\* C4: the averages are total / employeeCount when employeeCount > 0 and
\* exactly 0 otherwise; a project without rows has all-zero fields; no
\* average is NaN or Infinity.
C4_AveragesGuardZeroEmployees ==
    \A k \in DOMAIN projectSummaries :
        LET s == projectSummaries[k]
        IN  /\ IsFinite(s.averageHoursPerEmployee)
            /\ IsFinite(s.averageValuePerEmployee)
            /\ s.employeeCount > 0 =>
                   /\ IsQuotient(s.averageHoursPerEmployee, s.totalHours, s.employeeCount)
                   /\ IsQuotient(s.averageValuePerEmployee, s.totalValue, s.employeeCount)
            /\ s.employeeCount = 0 =>
                   /\ s.averageHoursPerEmployee = [num |-> 0, den |-> 1]
                   /\ s.averageValuePerEmployee = [num |-> 0, den |-> 1]
            /\ RowsOf(s.projectId) = {} =>
                   /\ s.totalHours = 0
                   /\ s.totalValue = 0
                   /\ s.employeeCount = 0
                   /\ s.averageHoursPerEmployee = [num |-> 0, den |-> 1]
                   /\ s.averageValuePerEmployee = [num |-> 0, den |-> 1]

\* one project without rows next to one with 3 hours over 2 employees
C4_Witness ==
    /\ SummariesComputed
    /\ \E k, m \in DOMAIN projectSummaries :
        /\ RowsOf(projectSummaries[k].projectId) = {}
        /\ projectSummaries[k].averageHoursPerEmployee = [num |-> 0, den |-> 1]
        /\ projectSummaries[m].employeeCount = 2
        /\ projectSummaries[m].averageHoursPerEmployee = [num |-> 3, den |-> 2]

\* the sum of field f over the summaries at the positions K
RECURSIVE SummaryFieldOver(_, _)
SummaryFieldOver(K, f) ==
    IF K = {} THEN 0
    ELSE LET k == CHOOSE m \in K : TRUE
         IN  projectSummaries[k][f] + SummaryFieldOver(K \ {k}, f)

\* the (project, employee) pairs that have a row, for the listed projects
AssignedPairs ==
    {<<projectSummaries[k].projectId, workData[j].employeeId>> :
        k \in DOMAIN projectSummaries, j \in DOMAIN workData} \cap
    {<<workData[j].projectId, workData[j].employeeId>> : j \in DOMAIN workData}

\* C5: overallTotals holds the sums of totalHours, totalValue and
\* employeeCount over all summaries; totalEmployees is not deduplicated: an
\* employee counts once for each listed project the employee has a row on.
C5_OverallTotalsAreSums ==
    /\ overallTotals.totalHours = SummaryFieldOver(DOMAIN projectSummaries, "totalHours")
    /\ overallTotals.totalValue = SummaryFieldOver(DOMAIN projectSummaries, "totalValue")
    /\ overallTotals.totalEmployees =
           SummaryFieldOver(DOMAIN projectSummaries, "employeeCount")
    /\ overallTotals.totalEmployees = Cardinality(AssignedPairs)

\* one employee with a row on each of two projects counts twice
C5_Witness ==
    /\ lastCall = "calculateOverallTotals"
    /\ Len(projectSummaries) = 2
    /\ Cardinality(EmployeesOver(DOMAIN workData)) = 1
    /\ overallTotals.totalEmployees = 2
    /\ overallTotals.totalHours = 3

Permutations(n) ==
    {q \in [1..n -> 1..n] : \A i, j \in 1..n : i # j => q[i] # q[j]}

Permuted(s, q) == [i \in 1..Len(s) |-> s[q[i]]]

C7_RecalculationIsIdempotent ==
    [][CalculateProjectSummaries =>
          /\ projectSummaries' = projectSummaries
          /\ projects' = projects
          /\ workData' = workData]_vars

\* the summaries of two projects after a second calculation
C7_Witness ==
    /\ lastCall = "calculateProjectSummaries"
    /\ Len(projectSummaries) = 2
    /\ Len(workData) = 2
    /\ projectSummaries[1].totalHours > 0

----------------------------------------------------------------------------
(* ProjectChartComponent: the series of the selected project *)

\* getEmptyChartData: labels, datasets[0].data (hours), datasets[1].data (values)
GetEmptyChartData_NoDatasets == [labels |-> <<>>]

GetEmptyChartData == [labels |-> <<>>, hours |-> <<>>, values |-> <<>>]

\* [...new Set(ids)]: the distinct elements in order of first occurrence
RECURSIVE SpreadSet(_)
SpreadSet(ids) ==
    IF Len(ids) = 0 THEN <<>>
    ELSE LET front == SpreadSet(SubSeq(ids, 1, Len(ids) - 1))
             last == ids[Len(ids)]
         IN  IF last \in Range(front) THEN front ELSE Append(front, last)

\* this.employees.filter(emp => assignedEmployeeIds.includes(emp.id))
AssignedEmployees_All(emps, assignedEmployeeIds) == emps

AssignedEmployees_ByAssignment(emps, assignedEmployeeIds) ==
    LET resolved == SelectSeq(assignedEmployeeIds,
                              LAMBDA id : \E i \in DOMAIN emps : emps[i].id = id)
    IN  [k \in 1..Len(resolved) |->
            emps[CHOOSE i \in DOMAIN emps : emps[i].id = resolved[k]]]

AssignedEmployees(emps, assignedEmployeeIds) ==
    SelectSeq(emps, LAMBDA emp : emp.id \in Range(assignedEmployeeIds))

Undefined == [undefined |-> TRUE]

\* projectWorkData.find(data => data.employeeId === employeeId)
FindWorkEntry(projectWorkData, employeeId) ==
    LET hits == {i \in DOMAIN projectWorkData :
                    projectWorkData[i].employeeId = employeeId}
    IN  IF hits = {} THEN Undefined
        ELSE projectWorkData[CHOOSE i \in hits : \A j \in hits : i <= j]

GetChartDataForProject(projectWorkData, emps) ==
    LET assignedEmployeeIds == SpreadSet(EmployeeIdsOf(projectWorkData))
        assignedEmployees == AssignedEmployees(emps, assignedEmployeeIds)
        hoursOf(employee) ==
            LET workEntry == FindWorkEntry(projectWorkData, employee.id)
            IN  IF workEntry # Undefined THEN workEntry.hoursWorked ELSE 0
        monetaryOf(employee) ==
            LET workEntry == FindWorkEntry(projectWorkData, employee.id)
            IN  IF workEntry # Undefined THEN workEntry.monetaryValue ELSE 0
    IN  IF Len(assignedEmployees) = 0
        THEN GetEmptyChartData
        ELSE [labels |-> [i \in 1..Len(assignedEmployees) |-> assignedEmployees[i].fullName],
              hours |-> [i \in 1..Len(assignedEmployees) |-> hoursOf(assignedEmployees[i])],
              values |-> [i \in 1..Len(assignedEmployees) |-> monetaryOf(assignedEmployees[i])]]

\* getChartData on the fields selectedProject, employees and workData
GetChartData(selected, emps, wd) ==
    IF selected = 0 \/ Len(emps) = 0 \/ Len(wd) = 0
    THEN GetEmptyChartData
    ELSE LET projectWorkData == ProjectWorkDataOf(wd, selected)
         IN  IF Len(projectWorkData) = 0
             THEN GetEmptyChartData
             ELSE GetChartDataForProject(projectWorkData, emps)

\* the component once loadData has delivered the employees and the work data
SeriesInit ==
    /\ employees \in EmployeeLists
    /\ workData \in WorkDataLists
    /\ projects = <<>>
    /\ projectSummaries = <<>>
    /\ overallTotals = ZeroTotals
    /\ selectedProject = 1
    /\ chartData = NoChartData
    /\ chart = NoChart
    /\ chartCanvas = FALSE
    /\ timers = 0
    /\ lastCall = "loadData"
    /\ pending = {}
    /\ yearProjection = ZeroProjection
    /\ currentMonth = 0
    /\ returned = NoResult
    /\ liveCharts = 0
    /\ grid = GridFields
    /\ theme = ThemeFields

\* the project selector writes selectedProject
SelectProject ==
    /\ \E p \in ProjectIds : selectedProject' = p
    /\ lastCall' = "selectProject"
    /\ UNCHANGED <<employees, projects, workData, projectSummaries, overallTotals,
                   chartData, chart, chartCanvas, timers>>
    /\ UNCHANGED <<pending, yearProjection, currentMonth, returned>>
    /\ UNCHANGED <<liveCharts, grid, theme>>

CallGetChartData ==
    /\ chartData' = GetChartData(selectedProject, employees, workData)
    /\ lastCall' = "getChartData"
    /\ UNCHANGED <<employees, projects, workData, projectSummaries, overallTotals,
                   selectedProject, chart, chartCanvas, timers>>
    /\ UNCHANGED <<pending, yearProjection, currentMonth, returned>>
    /\ UNCHANGED <<liveCharts, grid, theme>>

SeriesNext ==
    \/ SelectProject
    \/ CallGetChartData

SpecSeries == SeriesInit /\ [][SeriesNext]_vars

----------------------------------------------------------------------------
(* Properties of the per-project series, checked under SpecSeries *)

SelectedRows == {j \in DOMAIN workData : workData[j].projectId = selectedProject}

SeriesReturned == lastCall = "getChartData"

\* C8: labels, hours and values have the same length; every bar belongs to an
\* employee of the employee list who has a row on the selected project, and
\* its hours and value are those of one row of that employee on the project.
C8_SeriesIsParallelAndAssignedOnly ==
    SeriesReturned =>
        /\ Len(chartData.hours) = Len(chartData.labels)
        /\ Len(chartData.values) = Len(chartData.labels)
        /\ \A i \in DOMAIN chartData.labels :
            \E e \in DOMAIN employees, j \in SelectedRows :
                /\ employees[e].fullName = chartData.labels[i]
                /\ workData[j].employeeId = employees[e].id
                /\ workData[j].hoursWorked = chartData.hours[i]
                /\ workData[j].monetaryValue = chartData.values[i]

\* two employees are listed, only one has a row on the selected project
C8_Witness ==
    /\ SeriesReturned
    /\ Len(employees) = 2
    /\ Len(chartData.labels) = 1
    /\ Len(workData) = 2
    /\ Cardinality(SelectedRows) = 1
    /\ chartData.hours # chartData.values

\* the names of the employees with the ids in the sequence ids, unknown ids left out
NamesOfIds(ids) ==
    LET resolved == SelectSeq(ids, LAMBDA id : \E e \in DOMAIN employees : employees[e].id = id)
    IN  [k \in 1..Len(resolved) |->
            employees[CHOOSE e \in DOMAIN employees : employees[e].id = resolved[k]].fullName]

\* the employeeIds of the selected project's rows, in order of first occurrence
FirstSeenIds ==
    LET rows == SelectSeq(workData, LAMBDA data : data.projectId = selectedProject)
        firstAt(i) == \A j \in 1..(i - 1) : rows[j].employeeId # rows[i].employeeId
        firsts == {i \in DOMAIN rows : firstAt(i)}
        nth(k) == CHOOSE i \in firsts : Cardinality({j \in firsts : j < i}) = k - 1
    IN  [k \in 1..Cardinality(firsts) |-> rows[nth(k)].employeeId]

\* C9 as stated: the bars are in the order in which the employeeIds first
\* occur among the selected project's rows.
C9_OrderOfFirstOccurrence ==
    SeriesReturned => chartData.labels = NamesOfIds(FirstSeenIds)

PositionOf(name) == CHOOSE e \in DOMAIN employees : employees[e].fullName = name

\* C9 as amended: the bars are in the order of the employee list (the
\* employees with a row on the selected project, in the order in which
\* this.employees holds them), whatever the order of the rows.
C9_OrderOfEmployeeList ==
    SeriesReturned =>
        /\ \A i, j \in DOMAIN chartData.labels :
               i < j => PositionOf(chartData.labels[i]) < PositionOf(chartData.labels[j])
        /\ (employees # <<>> /\ workData # <<>>) =>
               {chartData.labels[i] : i \in DOMAIN chartData.labels} =
               {employees[e].fullName : e \in {x \in DOMAIN employees :
                   \E j \in SelectedRows : workData[j].employeeId = employees[x].id}}

\* the rows name the employees in the opposite order of the employee list
C9_Witness ==
    /\ SeriesReturned
    /\ Len(chartData.labels) = 2
    /\ Len(FirstSeenIds) = 2
    /\ employees[1].id = FirstSeenIds[2]
    /\ employees[2].id = FirstSeenIds[1]

\* C10: getChartData returns labels = [], hours = [], values = [] when the
\* selected project has no row, when none of its rows names a listed
\* employee, and when the employee list or the work data is empty.
C10_NoDataShape ==
    SeriesReturned =>
        ((\/ SelectedRows = {}
          \/ \A j \in SelectedRows : \A e \in DOMAIN employees :
                 employees[e].id # workData[j].employeeId
          \/ employees = <<>>
          \/ workData = <<>>)
         => chartData = [labels |-> <<>>, hours |-> <<>>, values |-> <<>>])

\* rows exist for the selected project but name no listed employee
C10_Witness ==
    /\ SeriesReturned
    /\ employees # <<>>
    /\ SelectedRows # {}
    /\ \A j \in SelectedRows : \A e \in DOMAIN employees :
           employees[e].id # workData[j].employeeId
    /\ chartData = [labels |-> <<>>, hours |-> <<>>, values |-> <<>>]

\* the outcome the specification demands for a row without employee record
ReferentialIntegrityError == [error |-> "referential-integrity"]

\* the selected project's rows whose employeeId is the id of no listed employee
DanglingRows ==
    {j \in SelectedRows :
        \A e \in DOMAIN employees : employees[e].id # workData[j].employeeId}

\* C11: when a row of the selected project names an employeeId without
\* employee record, building the series yields a referential-integrity error
\* and never a series that leaves that assignment out.
C11_DanglingRowIsAnError ==
    (SeriesReturned /\ employees # <<>> /\ DanglingRows # {})
        => chartData = ReferentialIntegrityError

----------------------------------------------------------------------------
(* YearProjectionComponent *)

MonthsPerYear == 12

\* the values of Date.prototype.getMonth
Months == 0..(MonthsPerYear - 1)

\* the array months of getMonthName
MonthNames ==
    <<"January", "February", "March", "April", "May", "June",
      "July", "August", "September", "October", "November", "December">>

\* the value of an array read outside the array's indices (no month has this name)
UndefinedName == "undefined"

\* getMonthName: months[monthIndex]
GetMonthName(monthIndex) ==
    IF monthIndex + 1 \in DOMAIN MonthNames
    THEN MonthNames[monthIndex + 1]
    ELSE UndefinedName

\* the spellings a project status is drawn from: the labels of PROJECT_STATUS
\* and the other letter cases of 'Completed'
StatusSpellings == {"Completed", "COMPLETED", "completed", "In Progress", "Planning"}

\* String.prototype.toLowerCase on the status spellings
ToLowerCase(status) ==
    CASE status \in {"Completed", "COMPLETED", "completed"} -> "completed"
      [] status = "In Progress" -> "in progress"
      [] status = "Planning" -> "planning"

\* project.status.toLowerCase() !== 'completed'
IsNotCompleted_CaseSensitive(status) == status # "Completed"

IsNotCompleted(status) == ToLowerCase(status) # "completed"

\* this.projects.filter(project => project.status.toLowerCase() !== 'completed')
GetActiveProjects(ps) == SelectSeq(ps, LAMBDA project : IsNotCompleted(project.status))

\* 12 - currentMonth
RemainingMonths_AfterCurrent(month) == MonthsPerYear - 1 - month

RemainingMonths_Inclusive(month) == MonthsPerYear + 1 - month

RemainingMonths(month) == MonthsPerYear - month

\* x * k for a quotient x and a non-negative integer k: NaN * k = NaN,
\* Infinity * 0 = NaN, Infinity * k = Infinity
JsMul(x, k) ==
    IF x.den = 0
    THEN [num |-> IF x.num = 0 \/ k = 0 THEN 0 ELSE 1, den |-> 0]
    ELSE JsDiv(x.num * k, x.den)

IsNaN(x) == x.den = 0 /\ x.num = 0

\* x <= y on non-negative numbers: false as soon as one side is NaN
JsLeq(x, y) ==
    /\ ~IsNaN(x)
    /\ ~IsNaN(y)
    /\ IF y.den = 0 THEN TRUE
       ELSE IF x.den = 0 THEN FALSE
       ELSE x.num * y.den <= y.num * x.den

\* the Set activeEmployeeIds after the forEach over the active projects
ActiveEmployeeIds_AllRows(activeProjects, wd) == Range(EmployeeIdsOf(wd))

ActiveEmployeeIds(activeProjects, wd) ==
    UNION {Range(EmployeeIdsOf(ProjectWorkDataOf(wd, activeProjects[i].id))) :
              i \in DOMAIN activeProjects}

\* the entry the loop pushes for i (i counts from 0)
MonthlyProjectionAt_Previous(month, i, projectedHoursPerMonth, projectedValuePerMonth) ==
    [month |-> GetMonthName(month + i),
     monthIndex |-> month + i,
     projectedHours |-> projectedHoursPerMonth,
     projectedValue |-> projectedValuePerMonth,
     cumulativeHours |-> JsMul(projectedHoursPerMonth, i),
     cumulativeValue |-> JsMul(projectedValuePerMonth, i)]

MonthlyProjectionAt(month, i, projectedHoursPerMonth, projectedValuePerMonth) ==
    [month |-> GetMonthName(month + i),
     monthIndex |-> month + i,
     projectedHours |-> projectedHoursPerMonth,
     projectedValue |-> projectedValuePerMonth,
     cumulativeHours |-> JsMul(projectedHoursPerMonth, i + 1),
     cumulativeValue |-> JsMul(projectedValuePerMonth, i + 1)]

\* the value calculateYearProjection assigns to this.yearProjection
YearProjectionOf(ps, wd, month) ==
    LET activeProjects == GetActiveProjects(ps)
        remainingMonths == RemainingMonths(month)
        totalHistoricalHours == TotalHoursOf(wd)
        totalHistoricalValue == TotalValueOf(wd)
        uniqueEmployees == Range(EmployeeIdsOf(wd))
        averageHoursPerEmployeePerMonth ==
            JsDiv(totalHistoricalHours, Cardinality(uniqueEmployees) * MonthsPerYear)
        averageValuePerEmployeePerMonth ==
            JsDiv(totalHistoricalValue, Cardinality(uniqueEmployees) * MonthsPerYear)
        activeEmployeeCount == Cardinality(ActiveEmployeeIds(activeProjects, wd))
        projectedHoursPerMonth == JsMul(averageHoursPerEmployeePerMonth, activeEmployeeCount)
        projectedValuePerMonth == JsMul(averageValuePerEmployeePerMonth, activeEmployeeCount)
    IN  [totalProjectedHours |-> JsMul(projectedHoursPerMonth, remainingMonths),
         totalProjectedValue |-> JsMul(projectedValuePerMonth, remainingMonths),
         activeProjects |-> Len(activeProjects),
         activeEmployees |-> activeEmployeeCount,
         averageHoursPerMonth |-> projectedHoursPerMonth,
         averageValuePerMonth |-> projectedValuePerMonth,
         remainingMonths |-> remainingMonths,
         monthlyBreakdown |->
             [k \in 1..remainingMonths |->
                 MonthlyProjectionAt(month, k - 1, projectedHoursPerMonth,
                                     projectedValuePerMonth)]]

\* what the employee stream delivers: the employee records in the order of the
\* service (calculateYearProjection does not read this.employees)
AllEmployees == [i \in EmployeeIds |-> [id |-> i, fullName |-> EmployeeNames[i]]]

\* the component after construction: currentDate = new Date(), ngOnInit has
\* called loadData and the three promises are pending
ProjectionInit ==
    /\ employees = <<>>
    /\ projects = <<>>
    /\ workData = <<>>
    /\ projectSummaries = <<>>
    /\ overallTotals = ZeroTotals
    /\ selectedProject = 1
    /\ chartData = NoChartData
    /\ chart = NoChart
    /\ chartCanvas = FALSE
    /\ timers = 0
    /\ lastCall = "constructor"
    /\ pending = {"employees", "projects", "workData"}
    /\ yearProjection = ZeroProjection
    /\ currentMonth \in Months
    /\ returned = NoResult
    /\ liveCharts = 0
    /\ grid = GridFields
    /\ theme = ThemeFields

\* the .then callback of Promise.all in YearProjectionComponent.loadData
ProjectionLoadData ==
    /\ lastCall = "constructor"
    /\ AllSettled(pending)
    /\ \E ps \in ProjectLists, wd \in WorkDataLists :
        /\ employees' = AllEmployees
        /\ projects' = ps
        /\ workData' = wd
        /\ yearProjection' = YearProjectionOf(ps, wd, currentMonth)
    /\ lastCall' = "calculateYearProjection"
    /\ UNCHANGED <<projectSummaries, overallTotals, selectedProject, chartData, chart,
                   chartCanvas, timers, pending, currentMonth, returned>>
    /\ UNCHANGED <<liveCharts, grid, theme>>

ProjectionNext ==
    \/ Settle
    \/ ProjectionLoadData

SpecProjection == ProjectionInit /\ [][ProjectionNext]_vars

----------------------------------------------------------------------------
(* YearProjectionComponent: the methods applied to a loaded component *)

MaxMonthIndex == 13

\* projects with a status in any of the spellings
ProjectsAnyStatus ==
    {[id |-> i, name |-> ProjectNames[i], status |-> st] :
        i \in ProjectIds, st \in StatusSpellings}

AnyStatusProjectLists ==
    {s \in SeqsUpTo(ProjectsAnyStatus, MaxProjectId) : UniqueIds(s)}

\* the component once loadData's callback has run, for a work-data relation
\* without rows
QueriesInit ==
    /\ employees = AllEmployees
    /\ projects \in AnyStatusProjectLists
    /\ workData = <<>>
    /\ projectSummaries = <<>>
    /\ overallTotals = ZeroTotals
    /\ selectedProject = 1
    /\ chartData = NoChartData
    /\ chart = NoChart
    /\ chartCanvas = FALSE
    /\ timers = 0
    /\ lastCall = "calculateYearProjection"
    /\ pending = {}
    /\ currentMonth \in Months
    /\ yearProjection = YearProjectionOf(projects, workData, currentMonth)
    /\ returned = NoResult
    /\ liveCharts = 0
    /\ grid = GridFields
    /\ theme = ThemeFields

CalculateYearProjection ==
    /\ yearProjection' = YearProjectionOf(projects, workData, currentMonth)
    /\ lastCall' = "calculateYearProjection"
    /\ UNCHANGED <<employees, projects, workData, projectSummaries, overallTotals,
                   selectedProject, chartData, chart, chartCanvas, timers, pending,
                   currentMonth, returned>>
    /\ UNCHANGED <<liveCharts, grid, theme>>

CallGetActiveProjects ==
    /\ returned' = [call |-> "getActiveProjects", value |-> GetActiveProjects(projects)]
    /\ lastCall' = "getActiveProjects"
    /\ UNCHANGED <<employees, projects, workData, projectSummaries, overallTotals,
                   selectedProject, chartData, chart, chartCanvas, timers, pending,
                   yearProjection, currentMonth>>
    /\ UNCHANGED <<liveCharts, grid, theme>>

CallGetMonthName ==
    /\ \E monthIndex \in 0..MaxMonthIndex :
        returned' = [call |-> "getMonthName", monthIndex |-> monthIndex,
                     value |-> GetMonthName(monthIndex)]
    /\ lastCall' = "getMonthName"
    /\ UNCHANGED <<employees, projects, workData, projectSummaries, overallTotals,
                   selectedProject, chartData, chart, chartCanvas, timers, pending,
                   yearProjection, currentMonth>>
    /\ UNCHANGED <<liveCharts, grid, theme>>

QueriesNext ==
    \/ CalculateYearProjection
    \/ CallGetActiveProjects
    \/ CallGetMonthName

SpecQueries == QueriesInit /\ [][QueriesNext]_vars

----------------------------------------------------------------------------
(* Properties of the year projection, checked under SpecProjection *)

ProjectionCalculated == lastCall = "calculateYearProjection"

\* the spellings of the completed status
CompletedSpellings == {"Completed", "COMPLETED", "completed"}

\* the positions of the projects that are not completed
ActivePositions == {i \in DOMAIN projects : projects[i].status \notin CompletedSpellings}

\* the employees with a row on a project that is listed and not completed
EmployeesOnActive ==
    {workData[j].employeeId :
        j \in {k \in DOMAIN workData :
                  \E i \in ActivePositions : projects[i].id = workData[k].projectId}}

\* x is total / divisor * factor; with a zero divisor (no rows: 0 / 0) x is NaN
IsScaledQuotient(x, total, divisor, factor) ==
    IF divisor = 0
    THEN IsNaN(x)
    ELSE x.den # 0 /\ x.num * divisor = total * factor * x.den

\* C12: the estimate per month is (sum of hoursWorked over all rows) /
\* (number of distinct employeeIds over all rows * 12) * (number of distinct
\* employeeIds on rows of projects that are not completed), and likewise for
\* the value: rows of completed projects count in the sum and in the divisor
\* but not in the multiplier.
C12_RateOverAllRowsScaledByActive ==
    ProjectionCalculated =>
        LET uniqueEmployeeCount == Cardinality(EmployeesOver(DOMAIN workData))
            activeEmployeeCount == Cardinality(EmployeesOnActive)
        IN  /\ yearProjection.activeEmployees = activeEmployeeCount
            /\ IsScaledQuotient(yearProjection.averageHoursPerMonth,
                                HoursOver(DOMAIN workData),
                                uniqueEmployeeCount * 12, activeEmployeeCount)
            /\ IsScaledQuotient(yearProjection.averageValuePerMonth,
                                ValueOver(DOMAIN workData),
                                uniqueEmployeeCount * 12, activeEmployeeCount)

\* January, one completed and one running project, each with one row of 2
\* hours of its own employee: 4 / (2 * 12) * 1 = 1/6 per month, 2 in the year
C12_Witness ==
    /\ ProjectionCalculated
    /\ currentMonth = 0
    /\ Len(projects) = 2
    /\ Len(workData) = 2
    /\ workData[1].projectId # workData[2].projectId
    /\ workData[1].employeeId # workData[2].employeeId
    /\ yearProjection.activeProjects = 1
    /\ yearProjection.activeEmployees = 1
    /\ yearProjection.averageHoursPerMonth = [num |-> 1, den |-> 6]
    /\ yearProjection.totalProjectedHours = [num |-> 2, den |-> 1]

\* the number 0
Zero == [num |-> 0, den |-> 1]

\* C14: with no assignment rows the averages and totals of the projection are
\* 0 and every monthly entry has projected and cumulative fields 0; no field is
\* NaN or Infinity.
C14_NoRowsGivesZeros ==
    (ProjectionCalculated /\ workData = <<>>) =>
        /\ yearProjection.averageHoursPerMonth = Zero
        /\ yearProjection.averageValuePerMonth = Zero
        /\ yearProjection.totalProjectedHours = Zero
        /\ yearProjection.totalProjectedValue = Zero
        /\ \A k \in DOMAIN yearProjection.monthlyBreakdown :
            /\ yearProjection.monthlyBreakdown[k].projectedHours = Zero
            /\ yearProjection.monthlyBreakdown[k].projectedValue = Zero
            /\ yearProjection.monthlyBreakdown[k].cumulativeHours = Zero
            /\ yearProjection.monthlyBreakdown[k].cumulativeValue = Zero

\* C15: remainingMonths is 12 minus the current month index, hence between 1
\* (December) and 12 (January) and never negative.
C15_RemainingMonthsInRange ==
    ProjectionCalculated =>
        /\ yearProjection.remainingMonths = 12 - currentMonth
        /\ yearProjection.remainingMonths >= 1
        /\ yearProjection.remainingMonths <= 12

\* December: one month remains, the current one
C15_Witness ==
    /\ ProjectionCalculated
    /\ currentMonth = 11
    /\ yearProjection.remainingMonths = 1
    /\ Len(yearProjection.monthlyBreakdown) = 1

\* x is y * k: a finite y gives the finite product, NaN gives NaN
IsProduct(x, y, k) ==
    IF y.den = 0
    THEN x.den = 0 /\ (IsNaN(y) => IsNaN(x))
    ELSE x.den # 0 /\ x.num * y.den = y.num * k * x.den

\* C16: monthlyBreakdown has remainingMonths entries; the entry for i (from 0)
\* has monthIndex = currentMonth + i, the projected fields equal to the
\* estimates per month and the cumulative fields equal to the estimates times
\* (i + 1); monthIndex increases by 1 and the cumulative fields never
\* decrease from one entry to the next.
C16_BreakdownPerMonth ==
    ProjectionCalculated =>
        LET breakdown == yearProjection.monthlyBreakdown
        IN  /\ Len(breakdown) = yearProjection.remainingMonths
            /\ \A k \in DOMAIN breakdown :
                /\ breakdown[k].monthIndex = currentMonth + (k - 1)
                /\ breakdown[k].projectedHours = yearProjection.averageHoursPerMonth
                /\ breakdown[k].projectedValue = yearProjection.averageValuePerMonth
                /\ IsProduct(breakdown[k].cumulativeHours,
                             yearProjection.averageHoursPerMonth, k)
                /\ IsProduct(breakdown[k].cumulativeValue,
                             yearProjection.averageValuePerMonth, k)
            /\ \A k \in DOMAIN breakdown \ {Len(breakdown)} :
                /\ breakdown[k + 1].monthIndex = breakdown[k].monthIndex + 1
                /\ JsLeq(breakdown[k].cumulativeHours, breakdown[k + 1].cumulativeHours)
                /\ JsLeq(breakdown[k].cumulativeValue, breakdown[k + 1].cumulativeValue)

\* C17: the totals are the estimates per month times remainingMonths,
\* activeEmployees is the number of employees the estimates were scaled by,
\* and the last monthly entry's cumulative fields are the totals.
C17_TotalsAreRateTimesRemaining ==
    ProjectionCalculated =>
        LET breakdown == yearProjection.monthlyBreakdown
        IN  /\ IsProduct(yearProjection.totalProjectedHours,
                         yearProjection.averageHoursPerMonth,
                         yearProjection.remainingMonths)
            /\ IsProduct(yearProjection.totalProjectedValue,
                         yearProjection.averageValuePerMonth,
                         yearProjection.remainingMonths)
            /\ yearProjection.activeEmployees = Cardinality(EmployeesOnActive)
            /\ IsScaledQuotient(yearProjection.averageHoursPerMonth,
                                HoursOver(DOMAIN workData),
                                Cardinality(EmployeesOver(DOMAIN workData)) * 12,
                                yearProjection.activeEmployees)
            /\ yearProjection.remainingMonths > 0 =>
                   /\ breakdown[Len(breakdown)].cumulativeHours =
                          yearProjection.totalProjectedHours
                   /\ breakdown[Len(breakdown)].cumulativeValue =
                          yearProjection.totalProjectedValue

\* October, two employees on a running project with 2 hours each: 1/3 of an
\* hour per month, 1 hour over the three remaining months
C17_Witness ==
    /\ ProjectionCalculated
    /\ currentMonth = 9
    /\ yearProjection.activeEmployees = 2
    /\ yearProjection.averageHoursPerMonth = [num |-> 1, den |-> 3]
    /\ yearProjection.totalProjectedHours = [num |-> 1, den |-> 1]
    /\ yearProjection.monthlyBreakdown[3].cumulativeHours = [num |-> 1, den |-> 1]
    /\ yearProjection.monthlyBreakdown[2].cumulativeHours = [num |-> 2, den |-> 3]

\* C20: while a relation requested by loadData is still pending, no relation
\* has been assigned, no calculation has run and the derived results are at
\* their initial all-zero values; the calculations run only once every
\* requested relation has been delivered.
C20_AllOrNothingJoin ==
    /\ pending # {} =>
           /\ lastCall = "constructor"
           /\ employees = <<>>
           /\ projects = <<>>
           /\ workData = <<>>
           /\ yearProjection.totalProjectedHours = Zero
           /\ yearProjection.totalProjectedValue = Zero
           /\ yearProjection.averageHoursPerMonth = Zero
           /\ yearProjection.averageValuePerMonth = Zero
           /\ yearProjection.activeProjects = 0
           /\ yearProjection.activeEmployees = 0
           /\ yearProjection.remainingMonths = 0
           /\ yearProjection.monthlyBreakdown = <<>>
           /\ projectSummaries = <<>>
           /\ overallTotals = [totalHours |-> 0, totalValue |-> 0, totalEmployees |-> 0]
    /\ lastCall \in {"loadData", "calculateYearProjection", "calculateProjectSummaries",
                     "calculateOverallTotals"} => pending = {}

\* two of the three relations have been delivered, the work data not yet
C20_Witness ==
    /\ pending = {"workData"}
    /\ lastCall = "constructor"
    /\ yearProjection.remainingMonths = 0
    /\ projects = <<>>

\* the number x is at most the integer n
AtMost(x, n) == x.den # 0 /\ x.num <= n * x.den

----------------------------------------------------------------------------
(* Properties of the methods of YearProjectionComponent, checked under SpecQueries *)

\* C13: yearProjection.activeProjects is the number of projects whose status
\* is not 'completed' in any letter case, and getActiveProjects returns exactly
\* those projects, in the order of this.projects.
C13_ActiveIsNotCompletedAnyCase ==
    /\ yearProjection.activeProjects = Cardinality(ActivePositions)
    /\ returned.call = "getActiveProjects" =>
           returned.value =
               SelectSeq(projects, LAMBDA project : project.status \notin CompletedSpellings)

\* an upper-case COMPLETED project is left out, a Planning project is kept
C13_Witness ==
    /\ returned.call = "getActiveProjects"
    /\ Len(projects) = 2
    /\ projects[1].status = "COMPLETED"
    /\ projects[2].status = "Planning"
    /\ returned.value = <<projects[2]>>
    /\ yearProjection.activeProjects = 1

\* the name of calendar month (monthIndex mod 12)
WrappedMonthName(monthIndex) == MonthNames[(monthIndex % 12) + 1]

\* C18: getMonthName returns, for every monthIndex >= 0, the name of calendar
\* month (monthIndex mod 12), never an undefined result, and each breakdown
\* entry's month is the name of its monthIndex mod 12.
C18_MonthNameWraps ==
    /\ returned.call = "getMonthName" =>
           returned.value = WrappedMonthName(returned.monthIndex)
    /\ \A k \in DOMAIN yearProjection.monthlyBreakdown :
           yearProjection.monthlyBreakdown[k].month =
               WrappedMonthName(yearProjection.monthlyBreakdown[k].monthIndex)

----------------------------------------------------------------------------
(* ProjectChartComponent: the statistics of the selected project *)

\* getProjectTotalHours
GetProjectTotalHours(selected, wd) == TotalHoursOf(ProjectWorkDataOf(wd, selected))

\* getProjectTotalValue
GetProjectTotalValue(selected, wd) == TotalValueOf(ProjectWorkDataOf(wd, selected))

\* getProjectEmployeeCount
GetProjectEmployeeCount(selected, wd) ==
    Cardinality(Range(EmployeeIdsOf(ProjectWorkDataOf(wd, selected))))

\* C29: when every employeeId on the selected project's rows has an employee
\* record, the sum of the series' hours is getProjectTotalHours(), the sum of
\* its values is getProjectTotalValue() and the number of labels is
\* getProjectEmployeeCount(), also with several rows for one employee.
C29_BarsAgreeWithStatistics ==
    (SeriesReturned /\ DanglingRows = {}) =>
        /\ Sum(chartData.hours) = GetProjectTotalHours(selectedProject, workData)
        /\ Sum(chartData.values) = GetProjectTotalValue(selectedProject, workData)
        /\ Len(chartData.labels) = GetProjectEmployeeCount(selectedProject, workData)

----------------------------------------------------------------------------
(* ProjectChartComponent: loading, project selection and the chart timers *)

MaxTimers == 2

\* the projects the chart component is given: one id more than the summaries
\* use, so that a list can hold a third project
ChartProjectIds == 1..(MaxProjectId + 1)

ChartProject ==
    {[id |-> i, name |-> ProjectNames[i], status |-> ProjectStatusOf[i]] :
        i \in ChartProjectIds}

ChartProjectLists ==
    {s \in SeqsUpTo(ChartProject, MaxProjectId + 1) : UniqueIds(s)}

\* the work data the chart component is given: at most one row
ChartWorkDataLists == {wd \in WorkDataLists : Len(wd) <= 1}

\* getProjectName: this.projects.find(p => p.id == projectId)?.name || 'Unknown Project'
GetProjectName(ps, projectId) ==
    LET hits == {i \in DOMAIN ps : ps[i].id = projectId}
    IN  IF hits = {} THEN "Unknown Project"
        ELSE ps[CHOOSE i \in hits : \A j \in hits : i <= j].name

\* reading this.projects[2].id throws a TypeError when projects[2] is undefined
LoadDataThrows(ps) == Len(ps) > 0 /\ Len(ps) < 3

\* selectedProject after the callback of loadData
SelectedAfterLoad(ps, selected) ==
    IF Len(ps) > 0 /\ ~LoadDataThrows(ps) THEN ps[3].id ELSE selected

\* the chart createChart constructs: new Chart(ctx, {data, options.plugins.title})
NewChart(selected, ps, emps, wd) ==
    [live |-> TRUE,
     title |-> GetProjectName(ps, selected),
     data |-> GetChartData(selected, emps, wd)]

\* updateChart: the chart field, the pending timers and the number of charts
\* it destroys, given whether the canvas is available
UpdateChartEffect_KeepExisting(oldChart, canvas, pendingTimers) ==
    IF ~canvas
    THEN [chart |-> oldChart, timers |-> pendingTimers + 1, destroyed |-> 0]
    ELSE IF oldChart.live
         THEN [chart |-> oldChart, timers |-> pendingTimers, destroyed |-> 0]
         ELSE [chart |-> NoChart, timers |-> pendingTimers + 1, destroyed |-> 0]

UpdateChartEffect(oldChart, canvas, pendingTimers) ==
    IF ~canvas
    THEN [chart |-> oldChart, timers |-> pendingTimers + 1, destroyed |-> 0]
    ELSE [chart |-> NoChart, timers |-> pendingTimers + 1,
          destroyed |-> IF oldChart.live THEN 1 ELSE 0]

\* createChart: the number of charts it destroys before constructing the new one
DestroyedByCreate_None(oldChart) == 0

DestroyedByCreate(oldChart) == IF oldChart.live THEN 1 ELSE 0

\* the component after construction: ngOnInit has called loadData and the
\* three promises are pending
ChartInit ==
    /\ employees = <<>>
    /\ projects = <<>>
    /\ workData = <<>>
    /\ projectSummaries = <<>>
    /\ overallTotals = ZeroTotals
    /\ selectedProject = 1
    /\ chartData = NoChartData
    /\ chart = NoChart
    /\ chartCanvas = FALSE
    /\ timers = 0
    /\ lastCall = "constructor"
    /\ pending = {"employees", "projects", "workData"}
    /\ yearProjection = ZeroProjection
    /\ currentMonth = 0
    /\ returned = NoResult
    /\ liveCharts = 0
    /\ grid = GridFields
    /\ theme = ThemeFields

\* the .then callback of Promise.all in ProjectChartComponent.loadData; when
\* the read of projects[2].id throws, the callback ends before setTimeout
ChartLoadData ==
    /\ lastCall = "constructor"
    /\ AllSettled(pending)
    /\ \E ps \in ChartProjectLists, wd \in ChartWorkDataLists :
        /\ employees' = AllEmployees
        /\ projects' = ps
        /\ workData' = wd
        /\ selectedProject' = SelectedAfterLoad(ps, selectedProject)
        /\ timers' = IF LoadDataThrows(ps) THEN timers ELSE timers + 1
    /\ lastCall' = "loadData"
    /\ UNCHANGED <<projectSummaries, overallTotals, chartData, chart, chartCanvas,
                   pending, yearProjection, currentMonth, returned, liveCharts,
                   grid, theme>>

\* a pending timer fires: ProjectChartComponent.createChart
ChartCreateChart ==
    /\ timers > 0
    /\ timers' = timers - 1
    /\ IF chartCanvas
       THEN /\ chart' = NewChart(selectedProject, projects, employees, workData)
            /\ liveCharts' = liveCharts - DestroyedByCreate(chart) + 1
       ELSE UNCHANGED <<chart, liveCharts>>
    /\ lastCall' = "createChart"
    /\ UNCHANGED <<employees, projects, workData, projectSummaries, overallTotals,
                   selectedProject, chartData, chartCanvas, pending, yearProjection,
                   currentMonth, returned, grid, theme>>

\* the user picks one of the listed projects: the selector writes
\* selectedProject and its change handler onProjectChange calls updateChart
OnProjectChange ==
    /\ timers < MaxTimers
    /\ \E i \in DOMAIN projects : selectedProject' = projects[i].id
    /\ LET effect == UpdateChartEffect(chart, chartCanvas, timers)
       IN  /\ chart' = effect.chart
           /\ timers' = effect.timers
           /\ liveCharts' = liveCharts - effect.destroyed
    /\ lastCall' = "updateChart"
    /\ UNCHANGED <<employees, projects, workData, projectSummaries, overallTotals,
                   chartData, chartCanvas, pending, yearProjection, currentMonth,
                   returned, grid, theme>>

ChartNext ==
    \/ Settle
    \/ ChartLoadData
    \/ ViewInit
    \/ ChartCreateChart
    \/ OnProjectChange

SpecChart == ChartInit /\ [][ChartNext]_vars

----------------------------------------------------------------------------
(* Properties of ProjectChartComponent, checked under SpecChart *)

\* C21: after loadData's callback has run with a non-empty project list,
\* selectedProject is the id of the first project of the list and a chart
\* creation is scheduled.
C21_FirstProjectSelected ==
    (lastCall = "loadData" /\ projects # <<>>) =>
        /\ selectedProject = projects[1].id
        /\ timers >= 1

\* C27: the component holds at most one Chart instance that was constructed
\* and not destroyed, and it is the one the chart field refers to: no chart is
\* replaced without being destroyed.
C27_AtMostOneLiveChart ==
    /\ liveCharts <= 1
    /\ liveCharts = IF chart.live THEN 1 ELSE 0

\* a chart has been created while a further timer is pending: the next
\* createChart finds an existing chart
C27_Witness ==
    /\ lastCall = "createChart"
    /\ chart.live
    /\ liveCharts = 1
    /\ timers = 1

\* C28: with the canvas available and no chart timer pending, a live chart
\* shows the selected project: its title and its data are those of the value
\* selectedProject holds, whatever selections and timers came before.
C28_ChartShowsLatestSelection ==
    (chartCanvas /\ timers = 0 /\ chart.live) =>
        /\ chart.title = GetProjectName(projects, selectedProject)
        /\ chart.data = GetChartData(selectedProject, employees, workData)

\* two selections in a row, both timers fired: the chart shows the second
\* project, whose data differ from those of the project loadData selected
C28_Witness ==
    /\ chartCanvas
    /\ timers = 0
    /\ chart.live
    /\ lastCall = "createChart"
    /\ Len(projects) = 3
    /\ selectedProject # projects[3].id
    /\ chart.title = GetProjectName(projects, selectedProject)
    /\ chart.data # GetChartData(projects[3].id, employees, workData)

----------------------------------------------------------------------------
(* EmployeeGridComponent: the paginated employee table *)

\* the longest employee list the stream emits
MaxGridEmployees == 31

\* itemsPerPage, a field the component never assigns after its initialiser
ItemsPerPage == 5

\* maxVisiblePages of getPageNumbers
MaxVisiblePages == 5

MathMin(a, b) == IF a <= b THEN a ELSE b

MathMax(a, b) == IF a >= b THEN a ELSE b

\* Math.ceil(n / d) for n >= 0 and d > 0
MathCeilDiv(n, d) == (n + d - 1) \div d

\* Array.prototype.slice(start, end): a negative index counts from the end,
\* both indices are clamped to 0..length, an empty range gives []
Slice(s, start, end) ==
    LET from == IF start < 0 THEN MathMax(Len(s) + start, 0) ELSE MathMin(start, Len(s))
        to == IF end < 0 THEN MathMax(Len(s) + end, 0) ELSE MathMin(end, Len(s))
    IN  IF from >= to THEN <<>> ELSE SubSeq(s, from + 1, to)

\* the lists getEmployeesStream can emit: the first n employees, ids 1..n
GridEmployeeLists == {[i \in 1..n |-> [id |-> i]] : n \in 0..MaxGridEmployees}

\* the page arguments goToPage is called with: below, within and above the range
GridPageArguments == 0..(MathCeilDiv(MaxGridEmployees, ItemsPerPage) + 1)

\* updateDisplayedEmployees: the slice of the list the page shows
DisplayedEmployees(emps, page) ==
    LET startIndex == (page - 1) * ItemsPerPage
        endIndex == startIndex + ItemsPerPage
    IN  Slice(emps, startIndex, endIndex)

\* updatePagination: totalPages, currentPage clamped from above, the slice
UpdatePaginationEffect(g, emps) ==
    LET total == MathCeilDiv(Len(emps), ItemsPerPage)
        page == MathMin(g.currentPage, total)
    IN  [currentPage |-> page,
         totalPages |-> total,
         displayedEmployees |-> DisplayedEmployees(emps, page)]

\* goToPage without its bounds check
GoToPageEffect_Unchecked(g, emps, page) ==
    [g EXCEPT !.currentPage = page,
              !.displayedEmployees = DisplayedEmployees(emps, page)]

\* goToPage: a page outside 1..totalPages is ignored
GoToPageEffect(g, emps, page) ==
    IF page >= 1 /\ page <= g.totalPages
        THEN [g EXCEPT !.currentPage = page,
                       !.displayedEmployees = DisplayedEmployees(emps, page)]
        ELSE g

\* goToPreviousPage
GoToPreviousPageEffect(g, emps) ==
    IF g.currentPage > 1 THEN GoToPageEffect(g, emps, g.currentPage - 1) ELSE g

\* goToNextPage
GoToNextPageEffect(g, emps) ==
    IF g.currentPage < g.totalPages THEN GoToPageEffect(g, emps, g.currentPage + 1) ELSE g

\* a window of getPageNumbers that starts three pages before the current one
PageWindowStart_Wide(page) == MathMax(1, page - 3)

\* the first page of the window getPageNumbers shows around the current page
PageWindowStart(page) == MathMax(1, page - 2)

\* the last page of that window
PageWindowEnd(page, total) == MathMin(total, page + 2)

\* getPageNumbers: every page when there are at most maxVisiblePages, else
\* the window around the current page
GetPageNumbers(g) ==
    IF g.totalPages <= MaxVisiblePages
        THEN [i \in 1..g.totalPages |-> i]
        ELSE LET start == PageWindowStart(g.currentPage)
                 end == PageWindowEnd(g.currentPage, g.totalPages)
             IN  [i \in 1..(end - start + 1) |-> start + i - 1]

\* the component after construction, before the stream has emitted
GridInit ==
    /\ employees = <<>>
    /\ projects = <<>>
    /\ workData = <<>>
    /\ projectSummaries = <<>>
    /\ overallTotals = ZeroTotals
    /\ selectedProject = 1
    /\ chartData = NoChartData
    /\ chart = NoChart
    /\ chartCanvas = FALSE
    /\ timers = 0
    /\ lastCall = "constructor"
    /\ pending = {}
    /\ yearProjection = ZeroProjection
    /\ currentMonth = 0
    /\ returned = NoResult
    /\ liveCharts = 0
    /\ grid = GridFields
    /\ theme = ThemeFields

\* the subscriber of getEmployeesList receives a list: it stores the list and
\* calls updatePagination
EmployeesEmitted ==
    /\ \E emps \in GridEmployeeLists :
        /\ employees' = emps
        /\ grid' = UpdatePaginationEffect(grid, emps)
    /\ lastCall' = "getEmployeesList"
    /\ returned' = [call |-> "getEmployeesList"]
    /\ UNCHANGED <<projects, workData, projectSummaries, overallTotals,
                   selectedProject, chartData, chart, chartCanvas, timers, pending,
                   yearProjection, currentMonth, liveCharts, theme>>

UpdatePagination ==
    /\ grid' = UpdatePaginationEffect(grid, employees)
    /\ lastCall' = "updatePagination"
    /\ returned' = [call |-> "updatePagination"]
    /\ UNCHANGED <<employees, projects, workData, projectSummaries, overallTotals,
                   selectedProject, chartData, chart, chartCanvas, timers, pending,
                   yearProjection, currentMonth, liveCharts, theme>>

GoToPage ==
    /\ \E page \in GridPageArguments :
        /\ grid' = GoToPageEffect(grid, employees, page)
        /\ returned' = [call |-> "goToPage", page |-> page]
    /\ lastCall' = "goToPage"
    /\ UNCHANGED <<employees, projects, workData, projectSummaries, overallTotals,
                   selectedProject, chartData, chart, chartCanvas, timers, pending,
                   yearProjection, currentMonth, liveCharts, theme>>

GoToPreviousPage ==
    /\ grid' = GoToPreviousPageEffect(grid, employees)
    /\ lastCall' = "goToPreviousPage"
    /\ returned' = [call |-> "goToPreviousPage"]
    /\ UNCHANGED <<employees, projects, workData, projectSummaries, overallTotals,
                   selectedProject, chartData, chart, chartCanvas, timers, pending,
                   yearProjection, currentMonth, liveCharts, theme>>

GoToNextPage ==
    /\ grid' = GoToNextPageEffect(grid, employees)
    /\ lastCall' = "goToNextPage"
    /\ returned' = [call |-> "goToNextPage"]
    /\ UNCHANGED <<employees, projects, workData, projectSummaries, overallTotals,
                   selectedProject, chartData, chart, chartCanvas, timers, pending,
                   yearProjection, currentMonth, liveCharts, theme>>

\* the template asks for the page numbers of the pagination controls
CallGetPageNumbers ==
    /\ returned' = [call |-> "getPageNumbers", pages |-> GetPageNumbers(grid)]
    /\ lastCall' = "getPageNumbers"
    /\ UNCHANGED <<employees, projects, workData, projectSummaries, overallTotals,
                   selectedProject, chartData, chart, chartCanvas, timers, pending,
                   yearProjection, currentMonth, liveCharts, grid, theme>>

GridNext ==
    \/ EmployeesEmitted
    \/ UpdatePagination
    \/ GoToPage
    \/ GoToPreviousPage
    \/ GoToNextPage
    \/ CallGetPageNumbers

SpecGrid == GridInit /\ [][GridNext]_vars

----------------------------------------------------------------------------
(* Properties of EmployeeGridComponent, checked under SpecGrid *)

\* C22: a goToPage step with a page below 1 or above totalPages leaves
\* currentPage and displayedEmployees as they were, and one with a page in
\* 1..totalPages makes it the current page; goToPreviousPage on page 1 and
\* goToNextPage on the last page change nothing.
C22_GoToPageValidatesBounds ==
    [][/\ lastCall' = "goToPage" =>
            IF returned'.page >= 1 /\ returned'.page <= grid.totalPages
                THEN grid'.currentPage = returned'.page
                ELSE /\ grid'.currentPage = grid.currentPage
                     /\ grid'.displayedEmployees = grid.displayedEmployees
       /\ (lastCall' = "goToPreviousPage" /\ grid.currentPage = 1) => grid' = grid
       /\ (lastCall' = "goToNextPage" /\ grid.currentPage = grid.totalPages) =>
            grid' = grid]_vars

\* goToPage was called with a page above the last of several pages, and the
\* table still shows the second page
C22_Witness ==
    /\ lastCall = "goToPage"
    /\ returned.page > grid.totalPages
    /\ grid.totalPages >= 2
    /\ grid.currentPage = 2
    /\ grid.displayedEmployees = DisplayedEmployees(employees, 2)

\* C23: the current page is at least 1 and at most max(1, totalPages), with
\* totalPages the number of pages the employee list needs.
C23_CurrentPageInRange ==
    /\ grid.currentPage >= 1
    /\ grid.currentPage <= MathMax(1, MathCeilDiv(Len(employees), ItemsPerPage))

\* C24: after an emission or a pagination operation, displayedEmployees holds
\* the employees at positions (currentPage-1)*itemsPerPage up to
\* currentPage*itemsPerPage of the list, at most itemsPerPage of them, and
\* at least one when the list is not empty.
C24_DisplayedIsCurrentPage ==
    lastCall # "constructor" =>
        /\ grid.displayedEmployees =
             [i \in {k \in 1..ItemsPerPage :
                        (grid.currentPage - 1) * ItemsPerPage + k \in 1..Len(employees)}
                |-> employees[(grid.currentPage - 1) * ItemsPerPage + i]]
        /\ Len(grid.displayedEmployees) <= ItemsPerPage
        /\ employees # <<>> => grid.displayedEmployees # <<>>

\* C25: with the current page within 1..totalPages, getPageNumbers returns
\* consecutive ascending page numbers within 1..totalPages, at most five of
\* them, the current page among them, and every page when there are at most
\* five pages.
C25_PageNumbersWindow ==
    (/\ returned.call = "getPageNumbers"
     /\ grid.currentPage >= 1
     /\ grid.currentPage <= grid.totalPages) =>
        LET pages == returned.pages
        IN  /\ \A i \in 1..(Len(pages) - 1) : pages[i + 1] = pages[i] + 1
            /\ \A i \in DOMAIN pages : pages[i] \in 1..grid.totalPages
            /\ Len(pages) <= 5
            /\ \E i \in DOMAIN pages : pages[i] = grid.currentPage
            /\ grid.totalPages <= 5 => pages = [i \in 1..grid.totalPages |-> i]

\* the page numbers were asked for on page 4 of more than five pages: the
\* window is 2..6
C25_Witness ==
    /\ returned.call = "getPageNumbers"
    /\ grid.totalPages > 5
    /\ grid.currentPage = 4
    /\ returned.pages = <<2, 3, 4, 5, 6>>

----------------------------------------------------------------------------
(* ThemeService: the theme, its persisted copy and the class on the root *)

\* the most calls of themeSubject.next that are followed
MaxThemeCalls == 5

\* type Theme
Themes == {"light", "dark"}

\* what localStorage holds under 'theme' when the service is constructed:
\* nothing, or what setTheme, the only writer of the key, stored earlier
StoredItems == {NoItem} \cup Themes

\* getCurrentTheme
GetCurrentTheme(th) == th.themeSubject

\* isDarkMode
IsDarkMode(th) == GetCurrentTheme(th) = "dark"

\* setTheme, called by the method named by call: the subject, the stored
\* item and the class on the root
SetThemeEffect(th, t, call) ==
    [themeSubject |-> t,
     stored |-> t,
     rootDark |-> IF t = "dark" THEN TRUE ELSE FALSE,
     emitted |-> Append(th.emitted, [call |-> call, theme |-> t])]

\* a toggle that goes to dark whatever the theme is
ToggleTarget_AlwaysDark(currentTheme) == "dark"

\* the theme toggleTheme passes to setTheme
ToggleTarget(currentTheme) == IF currentTheme = "light" THEN "dark" ELSE "light"

\* toggleTheme
ToggleThemeEffect(th) == SetThemeEffect(th, ToggleTarget(GetCurrentTheme(th)), "toggleTheme")

\* initializeTheme: the saved theme, or the system's preference when there
\* is none
InitializeTheme(th, systemPrefersDark) ==
    LET savedTheme == th.stored
    IN  IF savedTheme = NoItem
            THEN SetThemeEffect(th, IF systemPrefersDark THEN "dark" ELSE "light",
                                "constructor")
            ELSE SetThemeEffect(th, savedTheme, "constructor")

\* the service after its constructor has run initializeTheme
ThemeInit ==
    /\ employees = <<>>
    /\ projects = <<>>
    /\ workData = <<>>
    /\ projectSummaries = <<>>
    /\ overallTotals = ZeroTotals
    /\ selectedProject = 1
    /\ chartData = NoChartData
    /\ chart = NoChart
    /\ chartCanvas = FALSE
    /\ timers = 0
    /\ lastCall = "constructor"
    /\ pending = {}
    /\ yearProjection = ZeroProjection
    /\ currentMonth = 0
    /\ returned = NoResult
    /\ liveCharts = 0
    /\ grid = GridFields
    /\ \E savedTheme \in StoredItems, systemPrefersDark \in BOOLEAN :
        theme = InitializeTheme([ThemeFields EXCEPT !.stored = savedTheme],
                                systemPrefersDark)

SetTheme ==
    /\ Len(theme.emitted) < MaxThemeCalls
    /\ \E t \in Themes : theme' = SetThemeEffect(theme, t, "setTheme")
    /\ lastCall' = "setTheme"
    /\ UNCHANGED <<employees, projects, workData, projectSummaries, overallTotals,
                   selectedProject, chartData, chart, chartCanvas, timers, pending,
                   yearProjection, currentMonth, returned, liveCharts, grid>>

ToggleTheme ==
    /\ Len(theme.emitted) < MaxThemeCalls
    /\ theme' = ToggleThemeEffect(theme)
    /\ lastCall' = "toggleTheme"
    /\ UNCHANGED <<employees, projects, workData, projectSummaries, overallTotals,
                   selectedProject, chartData, chart, chartCanvas, timers, pending,
                   yearProjection, currentMonth, returned, liveCharts, grid>>

ThemeNext ==
    \/ SetTheme
    \/ ToggleTheme

SpecTheme == ThemeInit /\ [][ThemeNext]_vars

----------------------------------------------------------------------------
(* Properties of ThemeService, checked under SpecTheme *)

\* C26: after construction and after every setTheme and toggleTheme, the item
\* stored under 'theme' is the current theme and the root has the 'dark'
\* class exactly when the current theme is dark; a toggle made on light gives
\* dark and one made on dark gives light, and after two toggles in a row the
\* theme is the one before them.
C26_ThemeCopiesAgree ==
    /\ theme.stored = GetCurrentTheme(theme)
    /\ theme.rootDark <=> IsDarkMode(theme)
    /\ GetCurrentTheme(theme) = theme.emitted[Len(theme.emitted)].theme
    /\ \A i \in 2..Len(theme.emitted) :
        theme.emitted[i].call = "toggleTheme" =>
            /\ theme.emitted[i - 1].theme = "light" => theme.emitted[i].theme = "dark"
            /\ theme.emitted[i - 1].theme = "dark" => theme.emitted[i].theme = "light"
    /\ \A i \in 3..Len(theme.emitted) :
        (theme.emitted[i].call = "toggleTheme" /\ theme.emitted[i - 1].call = "toggleTheme") =>
            theme.emitted[i].theme = theme.emitted[i - 2].theme

\* the service started dark and was toggled twice: light in between, dark
\* again, in the subject, in localStorage and on the root
C26_Witness ==
    /\ Len(theme.emitted) = 3
    /\ theme.emitted[1] = [call |-> "constructor", theme |-> "dark"]
    /\ theme.emitted[2] = [call |-> "toggleTheme", theme |-> "light"]
    /\ theme.emitted[3].call = "toggleTheme"
    /\ theme.themeSubject = "dark"
    /\ theme.stored = "dark"
    /\ theme.rootDark

====
